---- MODULE Spec2Model ----
(***************************************************************************)
(* Server-side rendering of a yew virtual DOM through the streaming sink   *)
(* SsrSink (packages/yew/src/server_bundle/mod.rs) as driven by            *)
(* ServerRenderer (packages/yew/src/server_renderer.rs).                   *)
(*                                                                         *)
(* Byte strings are sequences of one-character strings.  Two render passes *)
(* of the same tree run side by side (Pass), each with its own renderer    *)
(* configuration and its own timing of the blockers' asynchronous work, so *)
(* that properties relating two passes are state predicates.               *)
(*                                                                         *)
(* The client side is modelled next to it: the panic hook that             *)
(* Renderer::render and Renderer::hydrate install                          *)
(* (packages/yew/src/renderer.rs) and the handles of the web_components    *)
(* example (examples/web_components/src/bindings.rs), whose callbacks the  *)
(* browser may call while another one runs.  Each part has its own         *)
(* specification, and so have the construction and serialization of one    *)
(* tag node and the comparison of component nodes; the variables of the    *)
(* other parts keep their initial values in it.                            *)
(***************************************************************************)
EXTENDS Integers, Sequences, FiniteSets, TLC

VARIABLES
    tree,               \* the root component (VComp) both passes render
    suspending,         \* ids of the components whose pre_render suspends
    debug_assertions,   \* cfg(debug_assertions) of the build
    hydratable,         \* ServerRenderer.hydratable, per pass
    sink,               \* the SsrSink, per pass
    pc,                 \* position of each pass
    awaiting,           \* <<>> or <<blocker>>: the blocker run_to_completion awaits
    resolved,           \* ids whose asynchronous work has resolved, in order, per pass
    pushed,             \* history: ids ever pushed by push_suspended, per pass
    drained,            \* history: ids popped by run_to_completion, in order, per pass
    destination,        \* the writer each pass gets: how many bytes it accepts
    panic_hook,         \* the process-wide panic hook (std::panic::set_hook)
    PANIC_HOOK_IS_SET,  \* the thread_local flag, per thread
    hook_pc,            \* position of each thread in the panic hook functions
    hook_calls,         \* history: entry points called so far
    custom_returned,    \* history: a set_custom_panic_hook call has returned
    installs,           \* history: set_hook calls made by set_default_panic_hook
    late_installs,      \* history: those made after set_custom_panic_hook returned
    cells,              \* per custom element: the WasmRefCell its pointer names
    js_stack,           \* the attribute_changed calls in progress, innermost last
    aborted,            \* a callback has thrown the fatal borrow error
    created,            \* history: handles created per element
    destroyed,          \* history: AppHandle::destroy calls per element
    torn_free,          \* history: disconnected calls made with no borrow active
    torn_borrowed,      \* history: disconnected calls made under an active borrow
    tag_request,        \* the tag name, attributes and children a tag node is asked for
    tag_state,          \* "requested", "rejected", "built" or "rendered"
    tag_node,           \* the node built, as an Option
    tag_sink,           \* the sink the node was serialized into
    eq_comps,           \* the component nodes compared
    eq_result           \* eq_result[x][y]: what eq_comps[x] == eq_comps[y] returned

ssr_vars == <<tree, suspending, debug_assertions, hydratable, sink, pc, awaiting,
              resolved, pushed, drained, destination>>

hook_vars == <<panic_hook, PANIC_HOOK_IS_SET, hook_pc, hook_calls, custom_returned,
               installs, late_installs>>

handle_vars == <<cells, js_stack, aborted, created, destroyed, torn_free,
                 torn_borrowed>>

tag_vars == <<tag_request, tag_state, tag_node, tag_sink>>

eq_vars == <<eq_comps, eq_result>>

vars == <<ssr_vars, hook_vars, handle_vars, tag_vars, eq_vars>>

\* what a server render leaves alone
not_ssr_vars == <<hook_vars, handle_vars, tag_vars, eq_vars>>

\* what the panic hook functions leave alone
not_hook_vars == <<ssr_vars, handle_vars, tag_vars, eq_vars>>

\* what the callbacks of a custom element leave alone, the panic hook apart
not_handle_vars == <<ssr_vars, tag_vars, eq_vars>>

\* Number of render passes run side by side.
Pass == {1, 2}

\* Largest number of components of one tree that suspend.
MaxSuspending == 3

\* Largest number of bytes a destination of limited size accepts.
MaxAccepted == 7

\* Number of threads that call the panic hook functions.
NumThreads == 2

Thread == 1..NumThreads

\* Largest number of calls of set_custom_panic_hook, render and hydrate.
MaxHookCalls == 4

\* Number of custom elements on the page.
NumElements == 2

Element == 1..NumElements

\* Largest number of times one element is connected.
MaxConnects == 2

\* Largest number of attribute_changed calls in progress at once.
MaxNesting == 2

\* Number of component types, of properties values and of keys compared.
MaxTypeId == 2

MaxProps == 2

MaxKey == 1

-----------------------------------------------------------------------------
(* Sequence helpers *)

Last(s) == s[Len(s)]

Front(s) == SubSeq(s, 1, Len(s) - 1)

RECURSIVE Flatten(_)
Flatten(ss) == IF ss = <<>> THEN <<>> ELSE Head(ss) \o Flatten(Tail(ss))

Range(s) == {s[i] : i \in 1..Len(s)}

\* TRUE iff pat occurs in s starting at index i
OccursAt(pat, s, i) ==
    /\ i + Len(pat) - 1 <= Len(s)
    /\ \A k \in 1..Len(pat) : s[i + k - 1] = pat[k]

Contains(s, pat) == \E i \in 1..Len(s) : OccursAt(pat, s, i)

Count(s, c) == Cardinality({i \in 1..Len(s) : s[i] = c})

-----------------------------------------------------------------------------
(* html_escape, as called by push_text and push_double_quoted_attr_value *)

encode_text_char(c) ==
    CASE c = "&" -> <<"&", "a", "m", "p", ";">>
      [] c = "<" -> <<"&", "l", "t", ";">>
      [] c = ">" -> <<"&", "g", "t", ";">>
      [] OTHER -> <<c>>

encode_text(text) == Flatten([i \in 1..Len(text) |-> encode_text_char(text[i])])

encode_double_quoted_attribute_char(c) ==
    CASE c = "&" -> <<"&", "a", "m", "p", ";">>
      [] c = "<" -> <<"&", "l", "t", ";">>
      [] c = ">" -> <<"&", "g", "t", ";">>
      [] c = "\"" -> <<"&", "q", "u", "o", "t", ";">>
      [] OTHER -> <<c>>

encode_double_quoted_attribute(attr) ==
    Flatten([i \in 1..Len(attr) |-> encode_double_quoted_attribute_char(attr[i])])

-----------------------------------------------------------------------------
(* SsrSink *)

\* The writer handed to render_to_string: a Vec<u8>, which accepts every byte
\* (ServerRenderer::render), or one of limited size such as a &mut [u8], whose
\* write_all copies the bytes that fit and returns an error for the rest.
Destination_vec == [limited |-> FALSE, room |-> 0]

Destination_slice(size) == [limited |-> TRUE, room |-> size]

\* SsrSink::new.  panicked records an abort of the pass (a panic unwinds through
\* every caller, so each later operation of the pass is skipped); written counts
\* the bytes handed to the render writes; limited and room are the writer's,
\* io_failed records that one of its write_all calls returned an error.
SsrSink_new(dest, hydr) ==
    [output |-> <<>>, buffer |-> <<>>, current_blockers |-> <<>>,
     queued_blockers |-> <<>>, hydratable |-> hydr,
     panicked |-> FALSE, written |-> 0,
     limited |-> dest.limited, room |-> dest.room, io_failed |-> FALSE]

panic(w) == [w EXCEPT !.panicked = TRUE]

output_inverted(w) == IF w.current_blockers = <<>> THEN "buffer" ELSE "output"

\* SsrSink::output: the destination while nothing blocks, else the scratch buffer
output(w) == IF w.current_blockers = <<>> THEN "output" ELSE "buffer"

\* io::Write::write_all on the chosen target, and the .unwrap() or .expect() that
\* every caller applies to its result: an error panics
write_all(w, target, bytes) ==
    IF target = "output"
    THEN IF w.limited /\ Len(bytes) > w.room
         THEN panic([w EXCEPT !.output = @ \o SubSeq(bytes, 1, w.room), !.room = 0,
                              !.io_failed = TRUE])
         ELSE [w EXCEPT !.output = @ \o bytes,
                        !.room = IF w.limited THEN @ - Len(bytes) ELSE @]
    ELSE [w EXCEPT !.buffer = @ \o bytes]

render_write_unrouted(w, bytes) ==
    IF w.panicked THEN w
    ELSE [write_all(w, "output", bytes) EXCEPT !.written = @ + Len(bytes)]

\* self.output().write_all(..) of a render write
render_write(w, bytes) ==
    IF w.panicked THEN w
    ELSE [write_all(w, output(w), bytes) EXCEPT !.written = @ + Len(bytes)]

write_fmt(w, args) == render_write(w, args)

push_str(w, str) == render_write(w, str)

push_text_unescaped(w, text) == render_write(w, text)

push_text(w, text) == render_write(w, encode_text(text))

push_double_quoted_attr_value(w, attr) ==
    render_write(w, encode_double_quoted_attribute(attr))

push_suspended_cloning(w, scope) ==
    IF w.panicked THEN w
    ELSE [w EXCEPT !.current_blockers = Append(@, <<w.buffer, scope>>)]

\* SsrSink::push_suspended: the buffer is taken and becomes the blocker's prefix
push_suspended(w, scope) ==
    IF w.panicked THEN w
    ELSE [w EXCEPT !.buffer = <<>>,
                   !.current_blockers = Append(@, <<w.buffer, scope>>)]

-----------------------------------------------------------------------------
(* Virtual nodes.  An Option is a sequence of length 0 (None) or 1 (Some). *)

VText_new(text) == [kind |-> "VText", text |-> text]

VTag_other(tag, attributes, children) ==
    [kind |-> "VTag", inner |-> "Other", tag |-> tag, attributes |-> attributes,
     value |-> <<>>, checked |-> FALSE, children |-> children]

VTag_input(attributes, value, checked) ==
    [kind |-> "VTag", inner |-> "Input", tag |-> <<"i", "n", "p", "u", "t">>,
     attributes |-> attributes, value |-> value, checked |-> checked,
     children |-> <<>>]

VTag_textarea(attributes, value) ==
    [kind |-> "VTag", inner |-> "Textarea",
     tag |-> <<"t", "e", "x", "t", "a", "r", "e", "a">>,
     attributes |-> attributes, value |-> value, checked |-> FALSE,
     children |-> <<>>]

VList_new(children) == [kind |-> "VList", children |-> children]

\* VComp: id stands for the component instance, name for its type name and view
\* for the Html its view function returns
VComp_new(id, name, view) == [kind |-> "VComp", id |-> id, name |-> name, view |-> view]

VSuspense_new(children) == [kind |-> "VSuspense", children |-> children]

VPortal_new(node) == [kind |-> "VPortal", node |-> node]

VRef_new == [kind |-> "VRef"]

VOID_ELEMENTS_and_div ==
    { <<"a", "r", "e", "a">>, <<"b", "a", "s", "e">>, <<"b", "r">>,
      <<"c", "o", "l">>, <<"d", "i", "v">>, <<"e", "m", "b", "e", "d">>, <<"h", "r">>,
      <<"i", "m", "g">>, <<"i", "n", "p", "u", "t">>, <<"l", "i", "n", "k">>,
      <<"m", "e", "t", "a">>, <<"p", "a", "r", "a", "m">>,
      <<"s", "o", "u", "r", "c", "e">>, <<"t", "r", "a", "c", "k">>,
      <<"w", "b", "r">> }

\* Elements that cannot have any child elements.
VOID_ELEMENTS ==
    { <<"a", "r", "e", "a">>, <<"b", "a", "s", "e">>, <<"b", "r">>,
      <<"c", "o", "l">>, <<"e", "m", "b", "e", "d">>, <<"h", "r">>,
      <<"i", "m", "g">>, <<"i", "n", "p", "u", "t">>, <<"l", "i", "n", "k">>,
      <<"m", "e", "t", "a">>, <<"p", "a", "r", "a", "m">>,
      <<"s", "o", "u", "r", "c", "e">>, <<"t", "r", "a", "c", "k">>,
      <<"w", "b", "r">> }

-----------------------------------------------------------------------------
(* Collectable: the hydration sentinels *)

Collectable_Suspense == [kind |-> "Suspense", type_name |-> <<>>]

Collectable_Component(type_name) == [kind |-> "Component", type_name |-> type_name]

open_start_mark(c) == IF c.kind = "Component" THEN <<"<", "[">> ELSE <<"<", "?">>

close_start_mark(c) ==
    IF c.kind = "Component" THEN <<"<", "/", "[">> ELSE <<"<", "/", "?">>

end_mark(c) == IF c.kind = "Component" THEN <<"]", ">">> ELSE <<">">>

\* #[cfg(debug_assertions)] match self { Component(type_name) => push_str(type_name), .. }
write_type_name(c, w) ==
    IF debug_assertions /\ c.kind = "Component" THEN push_str(w, c.type_name) ELSE w

write_open_tag(c, w) ==
    LET w1 == push_str(w, <<"<", "!", "-", "-">>)
        w2 == push_str(w1, open_start_mark(c))
        w3 == write_type_name(c, w2)
        w4 == push_str(w3, end_mark(c))
    IN  push_str(w4, <<"-", "-", ">">>)

write_close_tag(c, w) ==
    LET w1 == push_str(w, <<"<", "!", "-", "-">>)
        w2 == push_str(w1, close_start_mark(c))
        w3 == write_type_name(c, w2)
        w4 == push_str(w3, end_mark(c))
    IN  push_str(w4, <<"-", "-", ">">>)

-----------------------------------------------------------------------------
(* Rendering a tree into the sink *)

\* Scope::pre_render: runs the component up to its view; the scope it returns
\* is suspended when the component's asynchronous work is outstanding
pre_render(vcomp) == [comp |-> vcomp, suspended |-> vcomp.id \in suspending]

\* SsrScope::unblock, once awaited: the scope is suspended no longer, unless its
\* work has not resolved
unblock(scope, res) == [scope EXCEPT !.suspended = scope.comp.id \notin Range(res)]

\* the closure write_attr of VTag::render_to_string
write_attr(w, name, val) ==
    LET w1 == write_fmt(w, <<" ">> \o name)
    IN  IF val # <<>>
        THEN push_str(push_double_quoted_attr_value(push_str(w1, <<"=", "\"">>), val[1]),
                      <<"\"">>)
        ELSE w1

\* for (k, v) in iter { write_attr(w, k, Some(v)) }
RECURSIVE write_attributes(_, _)
write_attributes(attributes, w) ==
    IF attributes = <<>> THEN w
    ELSE write_attributes(Tail(attributes),
                          write_attr(w, Head(attributes)[1], <<Head(attributes)[2]>>))

VText_render_to_string(vtext, w) == push_text(w, vtext.text)

RECURSIVE VNode_render_to_string(_, _)
RECURSIVE VList_render_to_string(_, _)
RECURSIVE VTag_render_to_string(_, _)
RECURSIVE VSuspense_render_to_string(_, _)
RECURSIVE VComp_render_to_string(_, _)
RECURSIVE SsrScope_render_to_string(_, _)

\* SsrScope::render_to_string: a suspended scope registers itself as a blocker and
\* rendering goes on past it; a ready one serializes its view, between the
\* component sentinels when the sink is hydratable
SsrScope_render_to_string(scope, w) ==
    IF w.panicked THEN w
    ELSE IF scope.suspended THEN push_suspended(w, scope)
    ELSE LET collectable == Collectable_Component(scope.comp.name)
             w1 == IF w.hydratable THEN write_open_tag(collectable, w) ELSE w
             w2 == VNode_render_to_string(scope.comp.view, w1)
         IN  IF w.hydratable THEN write_close_tag(collectable, w2) ELSE w2

VComp_render_to_string(vcomp, w) == SsrScope_render_to_string(pre_render(vcomp), w)

VList_render_to_string(children, w) ==
    IF children = <<>> \/ w.panicked THEN w
    ELSE VList_render_to_string(Tail(children),
                                VNode_render_to_string(Head(children), w))

VSuspense_render_to_string_marked(vsuspense, w) ==
    LET collectable == Collectable_Suspense
        w1 == write_open_tag(collectable, w)
        w2 == VNode_render_to_string(vsuspense.children, w1)
    IN  IF w.hydratable THEN write_close_tag(collectable, w2) ELSE w2

VSuspense_render_to_string(vsuspense, w) ==
    LET collectable == Collectable_Suspense
        w1 == IF w.hydratable THEN write_open_tag(collectable, w) ELSE w
        w2 == VNode_render_to_string(vsuspense.children, w1)
    IN  IF w.hydratable THEN write_close_tag(collectable, w2) ELSE w2

\* a serializer that closes void tags too
VTag_render_to_string_closing_void(vtag, w) ==
    LET w1 == write_fmt(w, <<"<">> \o vtag.tag)
        w2 == IF vtag.inner = "Input"
              THEN LET wv == IF vtag.value # <<>>
                             THEN write_attr(w1, <<"v", "a", "l", "u", "e">>, vtag.value)
                             ELSE w1
                   IN  IF vtag.checked
                       THEN write_attr(wv, <<"c", "h", "e", "c", "k", "e", "d">>, <<>>)
                       ELSE wv
              ELSE w1
        w3 == write_attributes(vtag.attributes, w2)
        w4 == write_fmt(w3, <<">">>)
    IN  CASE vtag.inner = "Input" -> w4
          [] vtag.inner = "Textarea" ->
                LET w5 == IF vtag.value # <<>>
                          THEN VText_render_to_string(VText_new(vtag.value[1]), w4)
                          ELSE w4
                IN  push_str(w5, <<"<", "/", "t", "e", "x", "t", "a", "r", "e", "a", ">">>)
          [] OTHER ->
                IF vtag.tag \notin VOID_ELEMENTS
                THEN write_fmt(VList_render_to_string(vtag.children, w4),
                               <<"<", "/">> \o vtag.tag \o <<">">>)
                ELSE write_fmt(w4, <<"<", "/">> \o vtag.tag \o <<">">>)

VTag_render_to_string(vtag, w) ==
    LET w1 == write_fmt(w, <<"<">> \o vtag.tag)
        w2 == IF vtag.inner = "Input"
              THEN LET wv == IF vtag.value # <<>>
                             THEN write_attr(w1, <<"v", "a", "l", "u", "e">>, vtag.value)
                             ELSE w1
                   IN  IF vtag.checked
                       THEN write_attr(wv, <<"c", "h", "e", "c", "k", "e", "d">>, <<>>)
                       ELSE wv
              ELSE w1
        w3 == write_attributes(vtag.attributes, w2)
        w4 == write_fmt(w3, <<">">>)
    IN  CASE vtag.inner = "Input" -> w4
          [] vtag.inner = "Textarea" ->
                LET w5 == IF vtag.value # <<>>
                          THEN VText_render_to_string(VText_new(vtag.value[1]), w4)
                          ELSE w4
                IN  push_str(w5, <<"<", "/", "t", "e", "x", "t", "a", "r", "e", "a", ">">>)
          [] OTHER ->
                IF vtag.tag \notin VOID_ELEMENTS
                THEN write_fmt(VList_render_to_string(vtag.children, w4),
                               <<"<", "/">> \o vtag.tag \o <<">">>)
                ELSE IF debug_assertions /\ vtag.children # <<>> THEN panic(w4) ELSE w4

VNode_render_to_string_skipping_ref(node, w) ==
    IF w.panicked THEN w
    ELSE CASE node.kind = "VTag" -> VTag_render_to_string(node, w)
           [] node.kind = "VText" -> VText_render_to_string(node, w)
           [] node.kind = "VComp" -> VComp_render_to_string(node, w)
           [] node.kind = "VList" -> VList_render_to_string(node.children, w)
           [] node.kind = "VRef" -> w
           [] node.kind = "VPortal" -> w
           [] node.kind = "VSuspense" -> VSuspense_render_to_string(node, w)

VNode_render_to_string_entering_portal(node, w) ==
    IF w.panicked THEN w
    ELSE CASE node.kind = "VTag" -> VTag_render_to_string(node, w)
           [] node.kind = "VText" -> VText_render_to_string(node, w)
           [] node.kind = "VComp" -> VComp_render_to_string(node, w)
           [] node.kind = "VList" -> VList_render_to_string(node.children, w)
           [] node.kind = "VRef" -> panic(w)
           [] node.kind = "VPortal" -> VNode_render_to_string(node.node, w)
           [] node.kind = "VSuspense" -> VSuspense_render_to_string(node, w)

VNode_render_to_string(node, w) ==
    IF w.panicked THEN w
    ELSE CASE node.kind = "VTag" -> VTag_render_to_string(node, w)
           [] node.kind = "VText" -> VText_render_to_string(node, w)
           [] node.kind = "VComp" -> VComp_render_to_string(node, w)
           [] node.kind = "VList" -> VList_render_to_string(node.children, w)
           [] node.kind = "VRef" -> panic(w)
           [] node.kind = "VPortal" -> w
           [] node.kind = "VSuspense" -> VSuspense_render_to_string(node, w)

-----------------------------------------------------------------------------
(* SsrSink::run_to_completion, cut at its only await *)

\* if let Some((part, blocker)) = self.current_blockers.pop_front() {
\*     self.output.write_all(&part).unwrap();
run_pop_front(w) ==
    LET blocker == Head(w.current_blockers)
    IN  write_all([w EXCEPT !.current_blockers = Tail(@)], "output", blocker[1])

\* a shelving that pushes the pending queue even when it is empty
run_shelve_unconditional(w) ==
    IF w.panicked THEN w
    ELSE [w EXCEPT !.queued_blockers = Append(@, w.current_blockers),
                   !.current_blockers = <<>>]

\* the shelving of the blockers still pending once the awaited one resolved
run_shelve(w) ==
    IF w.panicked THEN w
    ELSE IF w.current_blockers # <<>>
    THEN [w EXCEPT !.queued_blockers = Append(@, w.current_blockers),
                   !.current_blockers = <<>>]
    ELSE w

run_unshelve_unguarded(w) ==
    IF w.panicked THEN w
    ELSE IF w.queued_blockers # <<>>
    THEN [w EXCEPT !.queued_blockers = Front(@),
                   !.current_blockers = Last(w.queued_blockers)]
    ELSE w

\* the restoring of the most recently shelved queue
run_unshelve(w) ==
    IF w.panicked THEN w
    ELSE IF w.current_blockers = <<>> /\ w.queued_blockers # <<>>
    THEN LET unshelved_blockers == Last(w.queued_blockers)
             w1 == [w EXCEPT !.queued_blockers = Front(@)]
         IN  IF debug_assertions /\ unshelved_blockers = <<>> THEN panic(w1)
             ELSE [w1 EXCEPT !.current_blockers = unshelved_blockers]
    ELSE w

\* let rest = std::mem::take(&mut self.buffer); self.output().write_all(&rest)
run_flush(w) ==
    IF w.panicked THEN w
    ELSE LET w1 == [w EXCEPT !.buffer = <<>>]
         IN  write_all(w1, output(w1), w.buffer)

\* blocker.unblock().await has completed
unblock_not_awaited(scope, res) == TRUE

unblock_completed(scope, res) == scope.comp.id \in Range(res)

\* the body of the if let after the await, then the final flush
run_resume(w, scope) ==
    run_flush(run_unshelve(SsrScope_render_to_string(scope, run_shelve(w))))

-----------------------------------------------------------------------------
(* The trees rendered: every text leaf of a tree below TreeProps is distinct *)

s_div == <<"d", "i", "v">>

\* html! { "abc" }
TreeAbc == VComp_new(1, <<"C", "o", "m", "p">>, VText_new(<<"a", "b", "c">>))

TreeEscaped == VComp_new(1, <<"C", "o", "m", "p">>, VText_new(<<"a", "<", "b", "&", "c", ">">>))

\* fn Child(props) -> html! { <div>{"Hello, "}{&props.name}{"!"}</div> }
Child(id, name) ==
    VComp_new(id, <<"C", "h", "i", "l", "d">>,
              VTag_other(s_div, <<>>, <<VText_new(<<"H", "e", "l", "l", "o", ",", " ">>), VText_new(name), VText_new(<<"!">>)>>))

\* fn Comp() -> html! { <div><Child name="Jane" /><Child name="John" /><Child name="Josh" /></div> }
TreeProps ==
    VComp_new(1, <<"C", "o", "m", "p">>,
              VTag_other(s_div, <<>>,
                         <<Child(2, <<"J", "a", "n", "e">>), Child(3, <<"J", "o", "h", "n">>), Child(4, <<"J", "o", "s", "h">>)>>))

TreeTags ==
    VComp_new(1, <<"C", "o", "m", "p">>,
        VList_new(<<
            VTag_other(<<"p">>, << <<<<"t", "i", "t", "l", "e">>, <<"q", "\"", "<">>>> >>, <<VText_new(<<"x">>)>>),
            VTag_input(<<>>, <<<<"v">>>>, TRUE),
            VTag_textarea(<<>>, <<<<"t", "<">>>>),
            VTag_other(<<"b", "r">>, <<>>, <<>>) >>))

TreeOne ==
    VComp_new(1, <<"C", "o", "m", "p">>,
        VTag_other(s_div, <<>>, <<
            VText_new(<<"a">>),
            VSuspense_new(VComp_new(2, <<"S">>, VTag_other(<<"p">>, <<>>, <<VText_new(<<"s">>)>>))),
            VText_new(<<"b">>) >>))

TreeSiblings ==
    VComp_new(1, <<"C", "o", "m", "p">>,
        VList_new(<<
            VText_new(<<"a">>),
            VSuspense_new(VList_new(<<
                VComp_new(2, <<"S">>, VText_new(<<"s">>)),
                VText_new(<<"m">>),
                VComp_new(3, <<"T">>, VText_new(<<"t">>)) >>)),
            VText_new(<<"b">>) >>))

TreeBoundaries ==
    VComp_new(1, <<"C", "o", "m", "p">>,
        VList_new(<<
            VText_new(<<"a">>),
            VSuspense_new(VComp_new(2, <<"S">>, VText_new(<<"s">>))),
            VText_new(<<"m">>),
            VSuspense_new(VComp_new(3, <<"T">>, VText_new(<<"t">>))),
            VText_new(<<"b">>) >>))

\* A(suspend1(suspend2(), C), B)
TreeNested ==
    VComp_new(1, <<"C", "o", "m", "p">>,
        VList_new(<<
            VText_new(<<"A">>),
            VSuspense_new(VComp_new(2, <<"S">>,
                VList_new(<<
                    VSuspense_new(VComp_new(3, <<"T">>, VText_new(<<"2">>))),
                    VText_new(<<"1">>),
                    VText_new(<<"C">>) >>))),
            VText_new(<<"B">>) >>))

TreeDeep ==
    VComp_new(1, <<"C", "o", "m", "p">>,
        VList_new(<<
            VText_new(<<"a">>),
            VSuspense_new(VComp_new(2, <<"S">>, VText_new(<<"s">>))),
            VSuspense_new(VComp_new(3, <<"T">>,
                VList_new(<<
                    VText_new(<<"x">>),
                    VSuspense_new(VComp_new(4, <<"U">>, VText_new(<<"u">>))),
                    VText_new(<<"y">>) >>))),
            VText_new(<<"b">>),
            VSuspense_new(VComp_new(5, <<"V">>, VText_new(<<"w">>))) >>))

TreePortal ==
    VComp_new(1, <<"C", "o", "m", "p">>,
        VList_new(<<VText_new(<<"a">>), VPortal_new(VText_new(<<"q">>)), VText_new(<<"b">>)>>))

TreeRef ==
    VComp_new(1, <<"C", "o", "m", "p">>, VList_new(<<VText_new(<<"a">>), VRef_new, VText_new(<<"b">>)>>))

Trees == {TreeAbc, TreeEscaped, TreeProps, TreeTags, TreeOne, TreeSiblings,
          TreeBoundaries, TreeNested, TreeDeep, TreePortal, TreeRef}

\* the children of a node, as a sequence
Children(node) ==
    CASE node.kind \in {"VTag", "VList"} -> node.children
      [] node.kind = "VComp" -> <<node.view>>
      [] node.kind = "VSuspense" -> <<node.children>>
      [] node.kind = "VPortal" -> <<node.node>>
      [] OTHER -> <<>>

\* ids of the components below a Suspense boundary: the ones that may suspend
RECURSIVE Suspendable(_, _)
Suspendable(node, inside) ==
    (IF node.kind = "VComp" /\ inside THEN {node.id} ELSE {})
    \cup UNION {Suspendable(Children(node)[i], inside \/ node.kind = "VSuspense")
                    : i \in 1..Len(Children(node))}

RECURSIVE HasKind(_, _)
HasKind(node, kind) ==
    \/ node.kind = kind
    \/ \E i \in 1..Len(Children(node)) : HasKind(Children(node)[i], kind)

-----------------------------------------------------------------------------
(* The passes *)

Blockers(w) == w.current_blockers \o Flatten(w.queued_blockers)

BlockerIds(w) == {Blockers(w)[i][2].comp.id : i \in 1..Len(Blockers(w))}

\* the panic hook functions before any call: no yew hook, no flag set
HookIdle ==
    /\ panic_hook = "std"
    /\ PANIC_HOOK_IS_SET = [t \in Thread |-> FALSE]
    /\ hook_pc = [t \in Thread |-> "idle"]
    /\ hook_calls = 0
    /\ custom_returned = FALSE
    /\ installs = 0
    /\ late_installs = 0

\* a renderer of one of the trees, not started
InitTrees ==
    /\ tree \in Trees
    /\ suspending \in {S \in SUBSET Suspendable(tree, FALSE) :
                            Cardinality(S) <= MaxSuspending}
    /\ debug_assertions \in BOOLEAN
    /\ hydratable = [p \in Pass |-> TRUE]
    /\ sink = [p \in Pass |-> SsrSink_new(destination, TRUE)]
    /\ pc = [p \in Pass |-> "new"]
    /\ awaiting = [p \in Pass |-> <<>>]
    /\ resolved = [p \in Pass |-> <<>>]
    /\ pushed = [p \in Pass |-> {}]
    /\ drained = [p \in Pass |-> <<>>]

\* the custom elements before any callback: no handle yet
HandleIdle ==
    /\ cells = [el \in Element |-> [state |-> "none", borrow |-> 0]]
    /\ js_stack = <<>>
    /\ aborted = FALSE
    /\ created = [el \in Element |-> 0]
    /\ destroyed = [el \in Element |-> 0]
    /\ torn_free = [el \in Element |-> 0]
    /\ torn_borrowed = [el \in Element |-> 0]

\* no tag node asked for
TagIdle ==
    /\ tag_request = [tag |-> s_div, attributes |-> <<>>, children |-> <<>>]
    /\ tag_state = "requested"
    /\ tag_node = <<>>
    /\ tag_sink = SsrSink_new(Destination_vec, FALSE)

\* no component nodes compared
EqIdle ==
    /\ eq_comps = <<>>
    /\ eq_result = <<>>

\* ServerRenderer::render: the destination is a Vec<u8>
Init ==
    /\ destination = Destination_vec
    /\ InitTrees
    /\ HookIdle
    /\ HandleIdle
    /\ TagIdle
    /\ EqIdle

\* ServerRenderer::render_to_string with a writer of limited size
InitIo ==
    /\ destination \in {Destination_slice(size) : size \in 0..MaxAccepted}
    /\ InitTrees
    /\ HookIdle
    /\ HandleIdle
    /\ TagIdle
    /\ EqIdle

\* ServerRenderer::hydratable
Hydratable(p, val) ==
    /\ pc[p] = "new"
    /\ hydratable' = [hydratable EXCEPT ![p] = val]
    /\ UNCHANGED <<tree, suspending, debug_assertions, sink, pc, awaiting,
                   resolved, pushed, drained, destination>>
    /\ UNCHANGED not_ssr_vars

\* ServerRenderer::render_to_string up to the call of run_to_completion
RenderToString(p) ==
    /\ pc[p] = "new"
    /\ LET w == SsrScope_render_to_string(pre_render(tree), SsrSink_new(destination, hydratable[p]))
       IN  /\ sink' = [sink EXCEPT ![p] = w]
           /\ pc' = [pc EXCEPT ![p] = IF w.panicked THEN "panicked" ELSE "rendered"]
           /\ pushed' = [pushed EXCEPT ![p] = @ \cup BlockerIds(w)]
    /\ UNCHANGED <<tree, suspending, debug_assertions, hydratable, awaiting,
                   resolved, drained, destination>>
    /\ UNCHANGED not_ssr_vars

\* SsrSink::run_to_completion up to its await, or to its end when nothing blocks
RunToCompletion(p) ==
    /\ pc[p] = "rendered"
    /\ IF sink[p].current_blockers # <<>>
       THEN LET w == run_pop_front(sink[p])
            IN  /\ sink' = [sink EXCEPT ![p] = w]
                /\ awaiting' = [awaiting EXCEPT
                       ![p] = IF w.panicked THEN <<>>
                              ELSE <<Head(sink[p].current_blockers)>>]
                /\ drained' = [drained EXCEPT
                       ![p] = Append(@, Head(sink[p].current_blockers)[2].comp.id)]
                /\ pc' = [pc EXCEPT ![p] = IF w.panicked THEN "panicked" ELSE "awaiting"]
       ELSE LET w == run_flush(sink[p])
            IN  /\ sink' = [sink EXCEPT ![p] = w]
                /\ pc' = [pc EXCEPT ![p] = IF w.panicked THEN "panicked" ELSE "done"]
                /\ UNCHANGED <<awaiting, drained>>
    /\ UNCHANGED <<tree, suspending, debug_assertions, hydratable, resolved, pushed,
                   destination>>
    /\ UNCHANGED not_ssr_vars

\* SsrSink::run_to_completion from the completed await to its end
Resume(p) ==
    /\ pc[p] = "awaiting"
    /\ unblock_completed(awaiting[p][1][2], resolved[p])
    /\ LET w == run_resume(sink[p], unblock(awaiting[p][1][2], resolved[p]))
       IN  /\ sink' = [sink EXCEPT ![p] = w]
           /\ pc' = [pc EXCEPT ![p] = IF w.panicked THEN "panicked" ELSE "done"]
           /\ pushed' = [pushed EXCEPT ![p] = @ \cup BlockerIds(w)]
    /\ awaiting' = [awaiting EXCEPT ![p] = <<>>]
    /\ UNCHANGED <<tree, suspending, debug_assertions, hydratable, resolved, drained,
                   destination>>
    /\ UNCHANGED not_ssr_vars

\* a resolution that touches the sink of the pass it wakes
Resolve_flushing(p, id) ==
    /\ id \in pushed[p] \ Range(resolved[p])
    /\ resolved' = [resolved EXCEPT ![p] = Append(@, id)]
    /\ sink' = [sink EXCEPT ![p] = run_flush(@)]
    /\ UNCHANGED <<tree, suspending, debug_assertions, hydratable, pc,
                   awaiting, pushed, drained, destination>>
    /\ UNCHANGED not_ssr_vars

\* the asynchronous work of a suspended component resolves
Resolve(p, id) ==
    /\ id \in pushed[p] \ Range(resolved[p])
    /\ resolved' = [resolved EXCEPT ![p] = Append(@, id)]
    /\ UNCHANGED <<tree, suspending, debug_assertions, hydratable, sink, pc,
                   awaiting, pushed, drained, destination>>
    /\ UNCHANGED not_ssr_vars

Next ==
    \E p \in Pass :
        \/ \E val \in BOOLEAN : Hydratable(p, val)
        \/ RenderToString(p)
        \/ RunToCompletion(p)
        \/ Resume(p)
        \/ \E id \in pushed[p] : Resolve(p, id)

Spec == Init /\ [][Next]_vars

SpecIo == InitIo /\ [][Next]_vars

-----------------------------------------------------------------------------
(* The panic hook (renderer.rs) *)

\* no server render in progress: the renderer as built for test_simple_str
SsrNotStarted ==
    /\ destination = Destination_vec
    /\ tree = TreeAbc
    /\ suspending = {}
    /\ hydratable = [p \in Pass |-> TRUE]
    /\ sink = [p \in Pass |-> SsrSink_new(destination, TRUE)]
    /\ pc = [p \in Pass |-> "new"]
    /\ awaiting = [p \in Pass |-> <<>>]
    /\ resolved = [p \in Pass |-> <<>>]
    /\ pushed = [p \in Pass |-> {}]
    /\ drained = [p \in Pass |-> <<>>]

SsrIdle == debug_assertions = TRUE /\ SsrNotStarted

InitHook == SsrIdle /\ HookIdle /\ HandleIdle /\ TagIdle /\ EqIdle

\* set_custom_panic_hook, line 19: std::panic::set_hook(hook)
SetCustomPanicHook(t) ==
    /\ hook_pc[t] = "idle"
    /\ hook_calls < MaxHookCalls
    /\ hook_calls' = hook_calls + 1
    /\ panic_hook' = "custom"
    /\ hook_pc' = [hook_pc EXCEPT ![t] = "custom_flag"]
    /\ UNCHANGED <<PANIC_HOOK_IS_SET, custom_returned, installs, late_installs>>
    /\ UNCHANGED not_hook_vars

\* set_custom_panic_hook, line 20: PANIC_HOOK_IS_SET.with(|f| f.set(true)), return
SetCustomPanicHookFlag(t) ==
    /\ hook_pc[t] = "custom_flag"
    /\ PANIC_HOOK_IS_SET' = [PANIC_HOOK_IS_SET EXCEPT ![t] = TRUE]
    /\ custom_returned' = TRUE
    /\ hook_pc' = [hook_pc EXCEPT ![t] = "idle"]
    /\ UNCHANGED <<panic_hook, hook_calls, installs, late_installs>>
    /\ UNCHANGED not_hook_vars

\* set_default_panic_hook, line 24: if !PANIC_HOOK_IS_SET.with(|f| f.replace(true))
set_default_panic_hook(t) ==
    /\ PANIC_HOOK_IS_SET' = [PANIC_HOOK_IS_SET EXCEPT ![t] = TRUE]
    /\ hook_pc' = [hook_pc EXCEPT
                       ![t] = IF PANIC_HOOK_IS_SET[t] THEN "idle" ELSE "default_set_hook"]

\* Renderer::render: set_default_panic_hook() up to its set_hook, then the mount
RendererRender(t) ==
    /\ hook_pc[t] = "idle"
    /\ hook_calls < MaxHookCalls
    /\ hook_calls' = hook_calls + 1
    /\ set_default_panic_hook(t)
    /\ UNCHANGED <<panic_hook, custom_returned, installs, late_installs>>
    /\ UNCHANGED not_hook_vars

\* Renderer::hydrate: set_default_panic_hook() up to its set_hook, then the mount
RendererHydrate(t) ==
    /\ hook_pc[t] = "idle"
    /\ hook_calls < MaxHookCalls
    /\ hook_calls' = hook_calls + 1
    /\ set_default_panic_hook(t)
    /\ UNCHANGED <<panic_hook, custom_returned, installs, late_installs>>
    /\ UNCHANGED not_hook_vars

\* set_default_panic_hook, line 25: std::panic::set_hook(console_error_panic_hook::hook)
SetDefaultPanicHookInstall(t) ==
    /\ hook_pc[t] = "default_set_hook"
    /\ panic_hook' = "console_error"
    /\ installs' = installs + 1
    /\ late_installs' = IF custom_returned THEN late_installs + 1 ELSE late_installs
    /\ hook_pc' = [hook_pc EXCEPT ![t] = "idle"]
    /\ UNCHANGED <<PANIC_HOOK_IS_SET, hook_calls, custom_returned>>
    /\ UNCHANGED not_hook_vars

NextHook ==
    \E t \in Thread :
        \/ SetCustomPanicHook(t)
        \/ SetCustomPanicHookFlag(t)
        \/ RendererRender(t)
        \/ RendererHydrate(t)
        \/ SetDefaultPanicHookInstall(t)

SpecHook == InitHook /\ [][NextHook]_vars

-----------------------------------------------------------------------------
(* The component handles of the web_components example (bindings.rs) *)

\* WasmRefCell::new: the cell counts its shared borrows
WasmRefCell_new == [state |-> "live", borrow |-> 0]

\* WasmRefCell::borrow_mut throws unless no borrow is active
borrow_mut_throws(cell) == cell.borrow # 0

\* WasmRefCell::borrow
borrow(cell) == [cell EXCEPT !.borrow = @ + 1]

\* the drop of the Ref that borrow returned
drop_ref(cell) == [cell EXCEPT !.borrow = @ - 1]

from_abi_unchecked(cell) == "owned"

\* ComponentHandle::from_abi: let _ = (*handle).borrow_mut(); Box::from_raw(handle)
from_abi(cell) == IF borrow_mut_throws(cell) THEN "thrown" ELSE "owned"

\* ComponentHandle::destroy: self.0.into_inner().destroy(), the box is freed
ComponentHandle_destroy(cell) == [cell EXCEPT !.state = "freed"]

InitHandle == SsrIdle /\ HookIdle /\ HandleIdle /\ TagIdle /\ EqIdle

\* ComponentDescriptor::connected: create, that is ComponentHandle::new_in, whose
\* Renderer::render runs set_default_panic_hook on the one thread of the page,
\* and into_abi
Connected(el) ==
    /\ ~aborted
    /\ cells[el].state # "live"
    /\ created[el] < MaxConnects
    /\ PANIC_HOOK_IS_SET' = [PANIC_HOOK_IS_SET EXCEPT ![1] = TRUE]
    /\ panic_hook' = IF PANIC_HOOK_IS_SET[1] THEN panic_hook ELSE "console_error"
    /\ installs' = IF PANIC_HOOK_IS_SET[1] THEN installs ELSE installs + 1
    /\ cells' = [cells EXCEPT ![el] = WasmRefCell_new]
    /\ created' = [created EXCEPT ![el] = @ + 1]
    /\ UNCHANGED <<js_stack, aborted, destroyed, torn_free, torn_borrowed>>
    /\ UNCHANGED <<hook_pc, hook_calls, custom_returned, late_installs>>
    /\ UNCHANGED not_handle_vars

\* ComponentDescriptor::disconnected: destroy, that is from_abi then
\* ComponentHandle::destroy; the browser may call it while updates are running
Disconnected(el) ==
    /\ ~aborted
    /\ cells[el].state = "live"
    /\ IF cells[el].borrow = 0
       THEN /\ torn_free' = [torn_free EXCEPT ![el] = @ + 1]
            /\ UNCHANGED torn_borrowed
       ELSE /\ torn_borrowed' = [torn_borrowed EXCEPT ![el] = @ + 1]
            /\ UNCHANGED torn_free
    /\ IF from_abi(cells[el]) = "thrown"
       THEN /\ aborted' = TRUE
            /\ UNCHANGED <<cells, destroyed>>
       ELSE /\ cells' = [cells EXCEPT ![el] = ComponentHandle_destroy(@)]
            /\ destroyed' = [destroyed EXCEPT ![el] = @ + 1]
            /\ UNCHANGED aborted
    /\ UNCHANGED <<js_stack, created>>
    /\ UNCHANGED <<hook_vars, not_handle_vars>>

\* ComponentDescriptor::attribute_changed: update, up to its send_message, which
\* holds the Ref of ref_from_abi while the message is handled
AttributeChanged(el) ==
    /\ ~aborted
    /\ cells[el].state = "live"
    /\ Len(js_stack) < MaxNesting
    /\ cells' = [cells EXCEPT ![el] = borrow(@)]
    /\ js_stack' = Append(js_stack, el)
    /\ UNCHANGED <<aborted, created, destroyed, torn_free, torn_borrowed>>
    /\ UNCHANGED <<hook_vars, not_handle_vars>>

\* update returns: the Ref is dropped
AttributeChangedReturn ==
    /\ ~aborted
    /\ js_stack # <<>>
    /\ cells' = [cells EXCEPT ![Last(js_stack)] = drop_ref(@)]
    /\ js_stack' = Front(js_stack)
    /\ UNCHANGED <<aborted, created, destroyed, torn_free, torn_borrowed>>
    /\ UNCHANGED <<hook_vars, not_handle_vars>>

NextHandle ==
    \/ \E el \in Element :
        \/ Connected(el)
        \/ Disconnected(el)
        \/ AttributeChanged(el)
    \/ AttributeChangedReturn

SpecHandle == InitHandle /\ [][NextHandle]_vars

-----------------------------------------------------------------------------
(* One tag node: its construction, then its serialization *)

\* the tag names that are void
VoidTagNames ==
    { <<"a", "r", "e", "a">>, <<"b", "a", "s", "e">>, <<"b", "r">>,
      <<"c", "o", "l">>, <<"e", "m", "b", "e", "d">>, <<"h", "r">>,
      <<"i", "m", "g">>, <<"i", "n", "p", "u", "t">>, <<"l", "i", "n", "k">>,
      <<"m", "e", "t", "a">>, <<"p", "a", "r", "a", "m">>,
      <<"s", "o", "u", "r", "c", "e">>, <<"t", "r", "a", "c", "k">>,
      <<"w", "b", "r">> }

\* the tag names asked for: the void ones and three that are not
TagNames == VoidTagNames \cup {s_div, <<"p">>, <<"s", "p", "a", "n">>}

\* the child lists asked for
ChildLists ==
    { <<>>,
      <<VText_new(<<"x">>)>>,
      <<VText_new(<<"x">>), VTag_other(<<"b", "r">>, <<>>, <<>>)>> }

\* the attribute lists asked for
TagAttributes ==
    { <<>>,
      << <<<<"i", "d">>, <<"a", "\"">>>> >>,
      << <<<<"i", "d">>, <<"a">>>>, <<<<"k">>, <<"<">>>> >> }

\* the construction of a tag node: a void tag given children is rejected
VTag_construct(tag, attributes, children) ==
    IF tag \in VoidTagNames /\ children # <<>>
    THEN <<>>
    ELSE <<VTag_other(tag, attributes, children)>>

InitTag ==
    /\ debug_assertions \in BOOLEAN
    /\ SsrNotStarted
    /\ HookIdle
    /\ HandleIdle
    /\ tag_request \in [tag : TagNames, attributes : TagAttributes, children : ChildLists]
    /\ tag_state = "requested"
    /\ tag_node = <<>>
    /\ tag_sink = SsrSink_new(Destination_vec, FALSE)
    /\ EqIdle

ConstructTag ==
    /\ tag_state = "requested"
    /\ tag_node' = VTag_construct(tag_request.tag, tag_request.attributes,
                                  tag_request.children)
    /\ tag_state' = IF tag_node' = <<>> THEN "rejected" ELSE "built"
    /\ UNCHANGED <<tag_request, tag_sink>>
    /\ UNCHANGED <<ssr_vars, hook_vars, handle_vars, eq_vars>>

\* VTag::render_to_string of the node built, into a sink of its own
RenderTag ==
    /\ tag_state = "built"
    /\ tag_sink' = VTag_render_to_string(tag_node[1], tag_sink)
    /\ tag_state' = "rendered"
    /\ UNCHANGED <<tag_request, tag_node>>
    /\ UNCHANGED <<ssr_vars, hook_vars, handle_vars, eq_vars>>

NextTag == ConstructTag \/ RenderTag

SpecTag == InitTag /\ [][NextTag]_vars

-----------------------------------------------------------------------------
(* The comparison of component nodes (vcomp.rs) *)

\* TypeId::of::<ICOMP::Component>(): one id per component type
TypeId_of(icomp) == icomp

\* VComp::new::<ICOMP>(props, scope_ref, key)
VComp_new_of(icomp, props, scope_ref, key) ==
    [type_id |-> TypeId_of(icomp), mountable |-> props, scope_ref |-> scope_ref,
     key |-> key]

VComp_eq_with_props(self, other) ==
    self.type_id = other.type_id /\ self.mountable = other.mountable

\* impl PartialEq for VComp
VComp_eq(self, other) == self.type_id = other.type_id

\* the component nodes compared; scope_ref and key are Options
VComps ==
    { VComp_new_of(icomp, props, scope_ref, key) :
        icomp \in 1..MaxTypeId, props \in 1..MaxProps,
        scope_ref \in {<<>>, <<1>>}, key \in {<<>>} \cup {<<k>> : k \in 1..MaxKey} }

InitEq ==
    /\ SsrIdle
    /\ HookIdle
    /\ HandleIdle
    /\ TagIdle
    /\ eq_comps \in [1..3 -> VComps]
    /\ eq_result = <<>>

\* eq_comps[x] == eq_comps[y], for every pair
Compare ==
    /\ eq_result = <<>>
    /\ eq_result' = [x \in 1..3 |-> [y \in 1..3 |-> VComp_eq(eq_comps[x], eq_comps[y])]]
    /\ UNCHANGED eq_comps
    /\ UNCHANGED <<ssr_vars, hook_vars, handle_vars, tag_vars>>

NextEq == Compare

SpecEq == InitEq /\ [][NextEq]_vars

-----------------------------------------------------------------------------
(* What the claims speak of *)

Done(p) == pc[p] = "done"

\* A naive single-pass synchronous serializer: the document-order (pre-order,
\* left-to-right) serialization of a tree, every component's content in place
RECURSIVE Serialize(_, _)
SerializeAttr(name, val) ==
    <<" ">> \o name \o <<"=", "\"">> \o encode_double_quoted_attribute(val) \o <<"\"">>

SerializeSentinel(start, c) ==
    <<"<", "!", "-", "-">> \o start
        \o (IF debug_assertions /\ c.kind = "Component" THEN c.type_name ELSE <<>>)
        \o end_mark(c) \o <<"-", "-", ">">>

SerializeWrapped(c, hydr, body) ==
    IF hydr
    THEN SerializeSentinel(open_start_mark(c), c) \o body
            \o SerializeSentinel(close_start_mark(c), c)
    ELSE body

Serialize(node, hydr) ==
    CASE node.kind = "VText" -> encode_text(node.text)
      [] node.kind = "VList" ->
            Flatten([i \in 1..Len(node.children) |-> Serialize(node.children[i], hydr)])
      [] node.kind = "VComp" ->
            SerializeWrapped(Collectable_Component(node.name), hydr,
                             Serialize(node.view, hydr))
      [] node.kind = "VSuspense" ->
            SerializeWrapped(Collectable_Suspense, hydr, Serialize(node.children, hydr))
      [] node.kind = "VTag" ->
            <<"<">> \o node.tag
            \o (IF node.inner = "Input" /\ node.value # <<>>
                THEN SerializeAttr(<<"v", "a", "l", "u", "e">>, node.value[1]) ELSE <<>>)
            \o (IF node.inner = "Input" /\ node.checked
                THEN <<" ", "c", "h", "e", "c", "k", "e", "d">> ELSE <<>>)
            \o Flatten([i \in 1..Len(node.attributes) |->
                            SerializeAttr(node.attributes[i][1], node.attributes[i][2])])
            \o <<">">>
            \o (IF node.inner = "Textarea"
                THEN (IF node.value # <<>> THEN encode_text(node.value[1]) ELSE <<>>)
                        \o <<"<", "/">> \o node.tag \o <<">">>
                ELSE IF node.inner = "Other" /\ node.tag \notin VOID_ELEMENTS
                THEN Flatten([i \in 1..Len(node.children) |->
                                    Serialize(node.children[i], hydr)])
                        \o <<"<", "/">> \o node.tag \o <<">">>
                ELSE <<>>)
      [] OTHER -> <<>>

SentinelStart == <<"<", "!", "-", "-", "<">>

SentinelEnd == <<"-", "-", ">">>

SuspenseOpen == <<"<", "!", "-", "-", "<", "?", ">", "-", "-", ">">>

SuspenseClose == <<"<", "!", "-", "-", "<", "/", "?", ">", "-", "-", ">">>

\* the indices from i on at which pat occurs in s
Occurrences(pat, s, i) == {j \in i..Len(s) : OccursAt(pat, s, j)}

\* the first index from i on at which pat occurs in s, or 0
Find(pat, s, i) ==
    IF Occurrences(pat, s, i) = {} THEN 0
    ELSE CHOOSE j \in Occurrences(pat, s, i) : \A k \in Occurrences(pat, s, i) : j <= k

\* s without its sentinel markers
RECURSIVE StripSentinels(_)
StripSentinels(s) ==
    LET start == Find(SentinelStart, s, 1)
        end == IF start = 0 THEN 0 ELSE Find(SentinelEnd, s, start)
    IN  IF end = 0 THEN s
        ELSE SubSeq(s, 1, start - 1)
                \o StripSentinels(SubSeq(s, end + Len(SentinelEnd), Len(s)))

RECURSIVE Sum(_)
Sum(ns) == IF ns = <<>> THEN 0 ELSE Head(ns) + Sum(Tail(ns))

\* the number of sentinels pat that start in the first n bytes of s
Marks(pat, s, n) == Cardinality({j \in 1..n : OccursAt(pat, s, j)})

\* every open Suspense sentinel of s has its close sentinel after it, and
\* conversely
Balanced(s) ==
    /\ Marks(SuspenseOpen, s, Len(s)) = Marks(SuspenseClose, s, Len(s))
    /\ \A n \in 1..Len(s) : Marks(SuspenseOpen, s, n) >= Marks(SuspenseClose, s, n)

\* the number of Suspense boundaries of a tree
RECURSIVE Boundaries(_)
Boundaries(node) ==
    (IF node.kind = "VSuspense" THEN 1 ELSE 0)
    + Sum([i \in 1..Len(Children(node)) |-> Boundaries(Children(node)[i])])

\* the places a rendered byte can be in: the destination, the scratch buffer
\* and the prefixes of the pending blockers
Places(w) ==
    <<w.output, w.buffer>> \o [i \in 1..Len(Blockers(w)) |-> Blockers(w)[i][1]]

\* the characters of the text nodes of a tree
RECURSIVE TextChars(_)
TextChars(node) ==
    (IF node.kind = "VText" THEN Range(node.text) ELSE {})
    \cup UNION {TextChars(Children(node)[i]) : i \in 1..Len(Children(node))}

NoDuplicates(s) == \A i, j \in 1..Len(s) : s[i] = s[j] => i = j

-----------------------------------------------------------------------------
(* The claims *)

\* C1: when render_to_string completes, the bytes in the output destination are
\* exactly the document-order serialization of the whole tree, whichever
\* boundaries suspended.
C1_DocumentOrder ==
    \A p \in Pass : Done(p) => sink[p].output = Serialize(tree, hydratable[p])

\* C2: when run_to_completion returns, every blocker ever pushed has been
\* drained, current_blockers, queued_blockers and the scratch buffer are empty,
\* and every byte produced by a render write is in the output destination.
C2_Completion ==
    \A p \in Pass :
        Done(p) =>
            /\ pushed[p] \subseteq Range(drained[p])
            /\ sink[p].current_blockers = <<>>
            /\ sink[p].queued_blockers = <<>>
            /\ sink[p].buffer = <<>>
            /\ Len(sink[p].output) = sink[p].written

\* C3: for a tree with no Suspense boundary the sink delivers the output of the
\* naive synchronous serializer: every write goes straight to the destination,
\* nothing is ever buffered or blocked, and run_to_completion adds nothing to
\* what the render pass wrote.
C3_NoSuspenseIsNaive ==
    \A p \in Pass :
        (~HasKind(tree, "VSuspense") /\ pc[p] # "new") =>
            /\ sink[p].buffer = <<>>
            /\ Blockers(sink[p]) = <<>>
            /\ Len(sink[p].output) = sink[p].written
            /\ pc[p] \in {"rendered", "done"} =>
                    sink[p].output = Serialize(tree, hydratable[p])

C3_Witness ==
    /\ Done(1)
    /\ tree = TreeTags
    /\ ~HasKind(tree, "VSuspense")
    /\ sink[1].output = Serialize(tree, hydratable[1])
    /\ Len(sink[1].output) > 40

\* C4: for the tree A(suspend1(suspend2(), C), B) with both suspending, the
\* final output is A's prefix, suspend2's content, suspend1's own content, C, B.
C4_NestedOrder ==
    \A p \in Pass :
        (Done(p) /\ tree = TreeNested /\ suspending = {2, 3}) =>
            StripSentinels(sink[p].output) = <<"A", "2", "1", "C", "B">>

\* C5: in every state of a pass no blocker has been drained more than once, and
\* no byte produced by a render write is in more than one place among the
\* destination, the scratch buffer and the pending blockers' prefixes: those
\* places never hold more bytes than were written, and a text character that
\* occurs once in the document occurs at most once across them.
C5_NothingTwice ==
    \A p \in Pass :
        /\ NoDuplicates(drained[p])
        /\ Sum([i \in 1..Len(Places(sink[p])) |-> Len(Places(sink[p])[i])])
                <= sink[p].written
        /\ LET held == Flatten(Places(sink[p]))
           IN  \A c \in TextChars(tree) :
                    Count(held, c) > 1 => Count(Serialize(tree, hydratable[p]), c) # 1

C5_Witness ==
    /\ pc[1] = "awaiting"
    /\ drained[1] = <<2>>
    /\ sink[1].buffer # <<>>
    /\ \E i \in 1..Len(sink[1].current_blockers) : sink[1].current_blockers[i][1] # <<>>

\* C6: two passes over the same tree with the same suspending components and the
\* same configuration, differing only in the order and timing in which the
\* blockers' work resolves, end with the same output.
C6_Deterministic ==
    \A p, q \in Pass :
        (Done(p) /\ Done(q) /\ hydratable[p] = hydratable[q]) =>
            sink[p].output = sink[q].output

C6_Witness ==
    /\ Done(1) /\ Done(2)
    /\ hydratable[1] = hydratable[2]
    /\ resolved[1] = <<2, 3>>
    /\ resolved[2] = <<3, 2>>
    /\ sink[1].output # <<>>

\* C7: a hydratable pass and a non-hydratable pass of the same tree end with
\* outputs that are equal once the sentinels are removed, and the
\* non-hydratable output holds no sentinel.
C7_HydratableOnlyAddsSentinels ==
    \A p, q \in Pass :
        (Done(p) /\ Done(q) /\ hydratable[p] /\ ~hydratable[q]) =>
            /\ StripSentinels(sink[p].output) = sink[q].output
            /\ ~Contains(sink[q].output, <<"<", "!", "-", "-">>)

C7_Witness ==
    /\ Done(1) /\ Done(2)
    /\ hydratable[1] /\ ~hydratable[2]
    /\ tree = TreeOne /\ suspending = {2}
    /\ Contains(sink[1].output, SuspenseOpen)
    /\ Contains(sink[1].output, SuspenseClose)
    /\ sink[2].output # <<>>

\* C8: in hydratable mode the completed output holds, for every Suspense
\* boundary rendered, exactly one open and one close sentinel, the open one
\* first, properly nested.
C8_SentinelsMatch ==
    \A p \in Pass :
        (Done(p) /\ hydratable[p]) =>
            /\ Balanced(sink[p].output)
            /\ Marks(SuspenseOpen, sink[p].output, Len(sink[p].output))
                    <= Boundaries(tree)

\* C9: a renderer built with new() and never told hydratable(false) renders the
\* three children under a div as exactly the element markup.
C9_Props ==
    \A p \in Pass :
        (Done(p) /\ tree = TreeProps /\ hydratable[p]) =>
            sink[p].output = <<"<", "d", "i", "v", ">", "<", "d", "i", "v", ">", "H", "e", "l", "l", "o", ",", " ", "J", "a", "n", "e", "!", "<", "/", "d", "i", "v", ">", "<", "d", "i", "v", ">", "H", "e", "l", "l", "o", ",", " ", "J", "o", "h", "n", "!", "<", "/", "d", "i", "v", ">", "<", "d", "i", "v", ">", "H", "e", "l", "l", "o", ",", " ", "J", "o", "s", "h", "!", "<", "/", "d", "i", "v", ">", "<", "/", "d", "i", "v", ">">>

\* C10: with hydration disabled a root whose whole body is a text node outputs
\* exactly that text, escaped for an element body: "abc" yields abc.
C10_SimpleStr ==
    \A p \in Pass :
        (Done(p) /\ ~hydratable[p]) =>
            /\ tree = TreeAbc => sink[p].output = <<"a", "b", "c">>
            /\ tree = TreeEscaped => sink[p].output = <<"a", "&", "l", "t", ";", "b", "&", "a", "m", "p", ";", "c", "&", "g", "t", ";">>

C10_Witness ==
    /\ Done(1)
    /\ ~hydratable[1]
    /\ tree = TreeAbc
    /\ sink[1].output = <<"a", "b", "c">>

\* how a pass ended for the caller of render_to_string: it returned, or a panic
\* unwound through it; the function has no error value to return
Outcome(p) ==
    CASE pc[p] = "done" -> "returned"
      [] pc[p] = "panicked" -> "panic"
      [] OTHER -> "running"

\* C11: once set_custom_panic_hook has been called, no later sequence of
\* render and hydrate calls replaces the hook it installed: yew overwrites the
\* panic hook only if none was set through set_custom_panic_hook before.
C11_CustomHookKept == custom_returned => panic_hook = "custom"

\* C12: whatever the threads and the interleaving of their render and hydrate
\* calls, set_default_panic_hook installs the default hook at most once in the
\* process, and never after a custom hook has been set.
C12_InstalledOnce == installs <= 1 /\ late_installs = 0

\* C13: a write to the output destination that fails during a server render
\* reaches the caller of the top-level render operation as an error outcome,
\* and the caller is shown no partially written output.
C13_WriteFailurePropagated ==
    \A p \in Pass :
        sink[p].io_failed => Outcome(p) = "error" /\ sink[p].output = <<>>

\* C14: a teardown (disconnected: from_abi, then destroy) that runs while an
\* attribute_changed update holds the borrow of ref_from_abi is a fatal error
\* that leaves the handle undestroyed, never a silent no-op; a teardown with no
\* borrow active destroys the handle exactly once.
C14_TeardownChecked ==
    \A el \in Element :
        /\ cells[el].state = "freed" =>
               cells[el].borrow = 0 /\ el \notin Range(js_stack)
        /\ torn_borrowed[el] > 0 => aborted /\ cells[el].state = "live"
        /\ destroyed[el] = torn_free[el]
        /\ created[el] = destroyed[el] + (IF cells[el].state = "live" THEN 1 ELSE 0)

C14_Witness ==
    /\ aborted
    /\ \E el \in Element : torn_borrowed[el] = 1 /\ el \in Range(js_stack)
    /\ \E el \in Element : destroyed[el] = 1 /\ cells[el].state = "freed"

C16_RefAborts ==
    \A p \in Pass :
        /\ ~sink[p].panicked =>
               /\ VNode_render_to_string(VRef_new, sink[p]) = panic(sink[p])
               /\ VList_render_to_string(<<VRef_new, VText_new(<<"z">>)>>, sink[p])
                      = panic(sink[p])
        /\ tree = TreeRef /\ pc[p] # "new" =>
               /\ pc[p] = "panicked"
               /\ StripSentinels(sink[p].output) = <<"a">>
               /\ sink[p].buffer = <<>>
               /\ sink[p].written = Len(sink[p].output)

C16_Witness ==
    /\ tree = TreeRef
    /\ pc[1] = "panicked"
    /\ sink[1].panicked
    /\ Contains(sink[1].output, <<"a">>)
    /\ ~Contains(sink[1].output, <<"b">>)

\* the nodes put inside a portal: a text, a VRef, whose serialization would
\* abort, and a boundary around a text
PortalContents ==
    { VText_new(<<"q">>), VRef_new, VSuspense_new(VText_new(<<"q">>)) }

\* C17: rendering a VPortal node leaves the output destination, the scratch
\* buffer, current_blockers and queued_blockers unchanged, and the subtree of
\* the portal is not traversed.
C17_PortalSkipped ==
    \A p \in Pass :
        /\ \A node \in PortalContents :
               VNode_render_to_string(VPortal_new(node), sink[p]) = sink[p]
        /\ tree = TreePortal /\ pc[p] # "new" =>
               /\ pc[p] \in {"rendered", "done"}
               /\ StripSentinels(sink[p].output) = <<"a", "b">>
               /\ sink[p].buffer = <<>>
               /\ sink[p].current_blockers = <<>>
               /\ sink[p].queued_blockers = <<>>

C17_Witness ==
    /\ tree = TreePortal
    /\ pc[1] = "done"
    /\ StripSentinels(sink[1].output) = <<"a", "b">>
    /\ sink[2].current_blockers = <<>>

\* C18: two component nodes are equal if and only if their type ids match,
\* whatever their properties, key and scope reference, and the relation is
\* reflexive, symmetric and transitive.
C18_EqByTypeId ==
    eq_result # <<>> =>
        /\ \A x, y \in 1..3 :
               eq_result[x][y] <=> eq_comps[x].type_id = eq_comps[y].type_id
        /\ \A x \in 1..3 : eq_result[x][x]
        /\ \A x, y \in 1..3 : eq_result[x][y] => eq_result[y][x]
        /\ \A x, y, z \in 1..3 : eq_result[x][y] /\ eq_result[y][z] => eq_result[x][z]

C18_Witness ==
    /\ eq_result # <<>>
    /\ eq_comps[1].type_id = eq_comps[2].type_id
    /\ eq_comps[1].mountable # eq_comps[2].mountable
    /\ eq_comps[1].key # eq_comps[2].key
    /\ eq_comps[1].scope_ref # eq_comps[2].scope_ref
    /\ eq_result[1][2]
    /\ eq_comps[3].mountable = eq_comps[1].mountable
    /\ eq_comps[3].key = eq_comps[1].key
    /\ ~eq_result[1][3]

\* the text characters and the components of a tree in document order; a
\* component stands where its content starts, and a portal's subtree, which is
\* not part of the document, is left out
RECURSIVE DocItems(_)
DocItems(node) ==
    (CASE node.kind = "VText" ->
              [i \in 1..Len(node.text) |-> [c |-> node.text[i], id |-> 0]]
       [] node.kind = "VComp" -> <<[c |-> "", id |-> node.id]>>
       [] OTHER -> <<>>)
    \o (IF node.kind = "VPortal" THEN <<>>
        ELSE Flatten([i \in 1..Len(Children(node)) |-> DocItems(Children(node)[i])]))

DocPos(items, id) == CHOOSE i \in 1..Len(items) : items[i].id = id

\* the characters of cs that occur once in the document
UniqueText(cs) ==
    IF cs = {} THEN {}
    ELSE LET doc == Serialize(tree, FALSE)
         IN  {c \in cs : Count(doc, c) = 1}

\* those of items before the content of component id, and those from its start on
TextBefore(items, id) == {items[i].c : i \in 1..(DocPos(items, id) - 1)}

TextAfter(items, id) == {items[i].c : i \in (DocPos(items, id) + 1)..Len(items)}

\* the bytes of a sample write: one that each escaping changes
SampleBytes == <<"a", "<", "\"">>

\* the text characters of cs that bytes holds outside its sentinels and that
\* occur once in the document
HeldOf(bytes, cs) ==
    IF Range(bytes) \cap cs = {} THEN {}
    ELSE UniqueText(Range(StripSentinels(bytes)) \cap cs)

\* r is w after a write of bytes routed by the blockers of w
Routed(w, r, bytes) ==
    /\ r.current_blockers = w.current_blockers
    /\ r.queued_blockers = w.queued_blockers
    /\ IF w.current_blockers # <<>>
       THEN r.buffer = w.buffer \o bytes /\ r.output = w.output
       ELSE r.output = w.output \o bytes /\ r.buffer = w.buffer

\* C19: every render write (write_fmt, push_str, push_text,
\* push_double_quoted_attr_value) appends to the scratch buffer and leaves the
\* destination unchanged while current_blockers is non-empty, and appends to the
\* destination and leaves the buffer unchanged while it is empty; so does the
\* final flush, and the destination never holds a byte of the document that
\* comes after the start of an unresolved blocker of the current queue.
C19_WriteRouting ==
    \A p \in Pass :
        LET w == sink[p]
        IN  /\ ~w.panicked =>
                   /\ Routed(w, write_fmt(w, SampleBytes), SampleBytes)
                   /\ Routed(w, push_str(w, SampleBytes), SampleBytes)
                   /\ Routed(w, push_text(w, SampleBytes), encode_text(SampleBytes))
                   /\ Routed(w, push_double_quoted_attr_value(w, SampleBytes),
                             encode_double_quoted_attribute(SampleBytes))
                   /\ w.current_blockers # <<>> => run_flush(w).output = w.output
            /\ w.current_blockers # <<>> =>
                   LET items == DocItems(tree)
                   IN  \A i \in 1..Len(w.current_blockers) :
                           HeldOf(w.output,
                                  TextAfter(items, w.current_blockers[i][2].comp.id))
                               = {}

C19_Witness ==
    /\ pc[1] = "rendered"
    /\ sink[1].current_blockers # <<>>
    /\ sink[1].buffer # <<>>
    /\ sink[1].output # <<>>
    /\ pc[2] = "done"
    /\ drained[2] # <<>>
    /\ sink[2].current_blockers = <<>>
    /\ Len(sink[2].output) > Len(sink[1].output)

\* C20: push_suspended appends one blocker to the back of current_blockers
\* whose prefix is the scratch buffer, leaves the buffer empty and the
\* destination, the earlier blockers and queued_blockers unchanged, and
\* rendering continues after it; the prefix of every pending blocker holds only
\* bytes that precede the content of its boundary in document order.
C20_PushSuspended ==
    \A p \in Pass :
        LET w == sink[p]
            scope == pre_render(tree)
            r == push_suspended(w, scope)
        IN  /\ ~w.panicked =>
                   /\ r.current_blockers = Append(w.current_blockers, <<w.buffer, scope>>)
                   /\ r.buffer = <<>>
                   /\ r.output = w.output
                   /\ r.queued_blockers = w.queued_blockers
                   /\ ~r.panicked
                   /\ push_str(r, SampleBytes).buffer = SampleBytes
            /\ Blockers(w) # <<>> =>
                   LET items == DocItems(tree)
                   IN  \A i \in 1..Len(Blockers(w)) :
                           HeldOf(Blockers(w)[i][1],
                                  TextAfter(items, Blockers(w)[i][2].comp.id)) = {}

\* the suspending components of the tree in document order: the order in which
\* a drain that is FIFO at each depth and depth-first across depths awaits them
DrainOrder ==
    LET items == DocItems(tree)
        Suspends(item) == item.id \in suspending
        found == SelectSeq(items, Suspends)
    IN  [i \in 1..Len(found) |-> found[i].id]

IsPrefix(s, t) == Len(s) <= Len(t) /\ SubSeq(t, 1, Len(s)) = s

\* C21: blockers are awaited and rendered FIFO at each nesting depth and
\* depth-first across depths: at every point of a pass the blockers drained so
\* far are the first ones of that order, and a completed pass has drained them
\* all, two blockers of one queue in push order and a blocker discovered in
\* deferred content before those pending at the enclosing depth.
C21_DrainOrder ==
    \A p \in Pass :
        /\ IsPrefix(drained[p], DrainOrder)
        /\ Done(p) => drained[p] = DrainOrder

\* C22: when the drain of the front blocker discovers new blockers, the old
\* blockers not yet drained are moved as one queue onto the top of
\* queued_blockers in their order; a shelved queue becomes current_blockers
\* again only where current_blockers is empty, the most recently shelved one
\* first; shelving and restoring lose, duplicate and reorder no blocker.
C22_Shelving ==
    \A p \in Pass :
        /\ sink[p].current_blockers # <<>> => run_unshelve(sink[p]) = sink[p]
        /\ (pc[p] = "awaiting" /\ unblock_completed(awaiting[p][1][2], resolved[p])) =>
               LET w == sink[p]
                   scope == unblock(awaiting[p][1][2], resolved[p])
                   old == w.current_blockers
                   r == run_resume(w, scope)
                   \* the blockers that rendering the deferred content discovers
                   news == SsrScope_render_to_string(
                               scope, [w EXCEPT !.current_blockers = <<>>]).current_blockers
                   IsOld(b) == b \in Range(old)
               IN  ~r.panicked =>
                       /\ SelectSeq(Blockers(r), IsOld) = old
                       /\ IF news # <<>> /\ old # <<>>
                          THEN /\ r.queued_blockers = Append(w.queued_blockers, old)
                               /\ r.current_blockers = news
                          ELSE /\ r.queued_blockers = w.queued_blockers
                               /\ r.current_blockers = (IF old # <<>> THEN old ELSE news)

C22_Witness ==
    /\ tree = TreeDeep
    /\ pc[1] = "awaiting"
    /\ unblock_completed(awaiting[1][1][2], resolved[1])
    /\ drained[1] = <<3>>
    /\ BlockerIds(sink[1]) = {5}
    /\ pc[2] = "done"
    /\ Len(sink[2].queued_blockers) = 1
    /\ sink[2].queued_blockers[1] = sink[1].current_blockers
    /\ Len(sink[2].current_blockers) = 1
    /\ sink[2].current_blockers[1][2].comp.id = 4

-----------------------------------------------------------------------------
(* The await of the drain *)

\* ids of the suspended components the top-level pass meets: the suspending
\* ones that are not inside another suspending one, nor inside a portal
RECURSIVE TopSuspended(_)
TopSuspended(node) ==
    IF node.kind = "VComp" /\ node.id \in suspending THEN {node.id}
    ELSE IF node.kind = "VPortal" THEN {}
    ELSE UNION {TopSuspended(Children(node)[i]) : i \in 1..Len(Children(node))}

\* the characters of the text the top-level pass writes, those that escaping
\* leaves as they are
RECURSIVE TopText(_)
TopText(node) ==
    IF node.kind = "VComp" /\ node.id \in suspending THEN {}
    ELSE IF node.kind = "VPortal" THEN {}
    ELSE (IF node.kind = "VText"
          THEN {c \in Range(node.text) : encode_text_char(c) = <<c>>}
          ELSE {})
         \cup UNION {TopText(Children(node)[i]) : i \in 1..Len(Children(node))}

Placed(w) == UNION {Range(Places(w)[i]) : i \in 1..Len(Places(w))}

\* C23: a pass is suspended only at the await of the front blocker: nothing is
\* awaited, drained or resolved before the top-level pass has run; when a
\* blocker is awaited the top-level pass is complete (every suspended
\* component it meets has been pushed and all its text is placed); while a
\* pass waits its sink does not change, and the step that changes it next
\* runs to the end of run_to_completion.
C23_OnlyAwaitSuspends ==
    /\ [](\A p \in Pass :
            /\ awaiting[p] # <<>> <=> pc[p] = "awaiting"
            /\ pc[p] = "new" =>
                   drained[p] = <<>> /\ resolved[p] = <<>> /\ pushed[p] = {}
            /\ pc[p] = "awaiting" =>
                   /\ TopSuspended(tree) \subseteq pushed[p]
                   /\ TopText(tree) \subseteq Placed(sink[p])
                   /\ awaiting[p][1][2].comp.id \notin BlockerIds(sink[p]))
    /\ [][\A p \in Pass :
              /\ (pc[p] # "new" /\ sink'[p] # sink[p]) => pc'[p] # pc[p]
              /\ (pc[p] = "awaiting" /\ pc'[p] # pc[p]) =>
                     awaiting'[p] = <<>> /\ pc'[p] \in {"done", "panicked"}]_vars

C23_Witness ==
    /\ tree = TreeDeep
    /\ suspending = {3, 4, 5}
    /\ pc[1] = "awaiting"
    /\ awaiting[1][1][2].comp.id \in Range(resolved[1])
    /\ Len(resolved[1]) = 2
    /\ sink[1].buffer # <<>>
    /\ pc[2] = "done"

-----------------------------------------------------------------------------
(* The serialization of one tag *)

\* the opening tag of a plain tag node, with its attributes
OpeningTag(node) ==
    <<"<">> \o node.tag
    \o Flatten([i \in 1..Len(node.attributes) |->
                    SerializeAttr(node.attributes[i][1], node.attributes[i][2])])
    \o <<">">>

ClosingTag(node) == <<"<", "/">> \o node.tag \o <<">">>

\* the children of a tag node, one after the other
ChildrenText(node) ==
    Flatten([i \in 1..Len(node.children) |-> Serialize(node.children[i], FALSE)])

C24_PlainWitness ==
    /\ tag_state = "rendered"
    /\ tag_request.tag = <<"p">>
    /\ tag_sink.output = <<"<", "p", ">", "x", "<", "b", "r", ">", "<", "/", "p", ">">>

-----------------------------------------------------------------------------
(* The queues on the stack *)

\* C25: every queue on the queued_blockers stack is non-empty, so the
\* assertion made when a shelved queue is restored never fails, and a
\* restoring leaves current_blockers non-empty.
C25_ShelvedNonEmpty ==
    \A p \in Pass :
        /\ \A i \in 1..Len(sink[p].queued_blockers) : sink[p].queued_blockers[i] # <<>>
        /\ (pc[p] = "awaiting" /\ unblock_completed(awaiting[p][1][2], resolved[p])) =>
               LET scope == unblock(awaiting[p][1][2], resolved[p])
                   rendered == SsrScope_render_to_string(scope, run_shelve(sink[p]))
                   restored == run_unshelve(rendered)
               IN  /\ \A i \in 1..Len(rendered.queued_blockers) :
                          rendered.queued_blockers[i] # <<>>
                   /\ ~rendered.panicked => ~restored.panicked
                   /\ restored.queued_blockers # rendered.queued_blockers =>
                          /\ restored.current_blockers # <<>>
                          /\ restored.current_blockers = Last(rendered.queued_blockers)

\* the pending blocker V was shelved and restored in pass 1 and is still
\* pending, unshelved, in pass 2
C25_Witness ==
    /\ tree = TreeDeep
    /\ suspending = {3, 5}
    /\ debug_assertions
    /\ pc[1] = "done"
    /\ drained[1] = <<3>>
    /\ sink[1].queued_blockers = <<>>
    /\ BlockerIds(sink[1]) = {5}
    /\ pc[2] = "awaiting"
    /\ awaiting[2][1][2].comp.id = 3
    /\ sink[2].current_blockers # <<>>

====
